---- MODULE Spec2Model ----
(***************************************************************************)
(* A model of fish-shell's src/postfork.cpp: the functions that run around *)
(* fork(): the fork launcher (execute_fork), the process-group negotiator  *)
(* (child_set_group / set_child_group), the IO chain applier               *)
(* (handle_child_io) and the posix_spawn plan builder                      *)
(* (fork_actions_make_spawn_properties).                                   *)
(*                                                                         *)
(* Each component has its own specification (SpecFork, SpecGroup, SpecIO,  *)
(* SpecSpawn) over the one set of variables; a specification leaves the     *)
(* variables of the other components at their idle values.                 *)
(***************************************************************************)
EXTENDS Integers, Sequences, FiniteSets, TLC

VARIABLES
    \* ---- execute_fork
    fk_pc,          \* "idle" | "lap" | "sleep" | "returned" | "fatal" | "exited"
    fk_i,           \* the loop counter i
    fk_errno,       \* the process-wide errno as execute_fork sees it
    fk_ret,         \* the value execute_fork returned (-1: none yet)
    fk_drained,     \* whether iothread_drain_all() ran in this call
    g_fork_count,   \* the global g_fork_count
    fk_sleeps,      \* history: nanosleep() calls made by this call
    fk_efails,      \* history: fork() failures with EAGAIN seen by this call
    fk_child,       \* history: the pid the successful fork() produced (-1: none)
    fk_lasterr,     \* history: the errno the most recent failed fork() set ("none")
    fk_reported,    \* the errno safe_perror("fork") reported ("none": no report)
    \* ---- child_set_group / set_child_group
    jb_flags,       \* the job's flags: [control, terminal, foreground]
    j_pgid,         \* j->pgid in the parent (the shell)
    gp_n,           \* how many processes of the job have been forked
    gp_pid,         \* gp_pid[i]: pid of the job's i-th process (0: not forked)
    cj_pgid,        \* cj_pgid[i]: j->pgid in child i's post-fork copy of the job
    ch_entry,       \* history: cj_pgid[i] on entry to child_set_group
    ch_pc,          \* child i: "unborn" | "enter" | "setpgid" | "check" | "done"
    ch_failure,     \* child i: the local `failure` (setpgid's last result)
    ch_errno,       \* child i: errno
    ch_tries,       \* child i: setpgid calls made so far
    ch_ret,         \* child i: retval of child_set_group
    ch_rechecked,   \* history: child i evaluated getpgid(p->pid) != j->pgid
    k_pgrp,         \* kernel: process group of child i (getpgid(gp_pid[i]))
    tty_pgrp,       \* kernel: foreground group of the terminal (tcgetpgrp)
    par_pc,         \* parent: "wait" | "done" for set_child_group(j, gp_pid[i])
    par_log,        \* history of set_child_group call i: [tty, pgid, gave, ret]
    tty_gives,      \* history: transfers terminal_give_to_job carried out
    pgid_writes,    \* history: every assignment to a j->pgid: [by, proc, old, new]
    \* ---- handle_child_io
    io_chain,       \* the IoChain handed to handle_child_io
    io_fds,         \* the process's fd table: fd -> open file description or Closed
    io_fds0,        \* history: the fd table when handle_child_io was entered
    io_prev,        \* history: the fd table before the entry attempted last
    io_idx,         \* how many entries the loop has attempted (the last: io_chain[io_idx])
    io_pc,          \* "run" | "done"
    io_ret,         \* handle_child_io's return value (0 while running)
    \* ---- fork_actions_make_spawn_properties
    sp_pc,          \* "idle" | "attr_init" | "actions_init" | "setflags" |
                    \* "setpgroup" | "setsigdefault" | "setsigmask" | "loop" |
                    \* "cleanup" | "done"
    sp_attr,        \* *attr: [state, inits, destroys, flags, pgroup, sigdefault, sigmask]
    sp_actions,     \* *actions: [state, inits, destroys, list]
    sp_err,         \* the local err, as err != 0
    sp_idx,         \* the loop index idx, counted in entries done with
    sp_ret,         \* the return value
    \* ---- setup_child_process
    su_pc,          \* "idle" | "io" | "returned" | "exited"
    su_p_null,      \* whether the process context p is null (p == 0)
    su_ret,         \* the value setup_child_process returned (1: none yet)
    su_exit,        \* the status given to exit_without_destructors (-1: not called)
    su_resets,      \* history: calls of signal_reset_handlers
    su_reset_at,    \* history: io_idx when signal_reset_handlers was called (-1: never)
    \* ---- do_builtin_io
    bio_pc,         \* "idle" | "out" | "log" | "err" | "ret" | "done"
    bio_out,        \* out && outlen
    bio_err,        \* err && errlen
    bio_errno,      \* the process-wide errno as do_builtin_io's process sees it
    bio_saved,      \* the local saved_errno
    bio_success,    \* the local success
    bio_ret,        \* the value do_builtin_io returned
    bio_logs,       \* history: the diagnostics logged: <<stream, errno reported>>
    bio_fails,      \* history: the writes that failed, in order: <<stream, errno set>>
    \* ---- safe_report_exec_error
    rp_pc,          \* "idle" | "call" | "done"
    rp_err,         \* the argument err
    rp_errno,       \* the process-wide errno when the function is called
    rp_cmd,         \* the file at actual_cmd: [exists, interp]
    rp_args,        \* the lengths of the strings of argv and envv: [argv, envv]
    rp_arg_max,     \* what sysconf(_SC_ARG_MAX) returns
    rp_log          \* the diagnostics debug_safe was given, in order

fork_vars == <<fk_pc, fk_i, fk_errno, fk_ret, fk_drained, g_fork_count,
               fk_sleeps, fk_efails, fk_child, fk_lasterr, fk_reported>>

group_vars == <<jb_flags, j_pgid, gp_n, gp_pid, cj_pgid, ch_entry, ch_pc,
                ch_failure, ch_errno, ch_tries, ch_ret, ch_rechecked, k_pgrp,
                tty_pgrp, par_pc, par_log, tty_gives, pgid_writes>>

io_vars == <<io_chain, io_fds, io_fds0, io_prev, io_idx, io_pc, io_ret>>

spawn_vars == <<sp_pc, sp_attr, sp_actions, sp_err, sp_idx, sp_ret>>

setup_vars == <<su_pc, su_p_null, su_ret, su_exit, su_resets, su_reset_at>>

bio_vars == <<bio_pc, bio_out, bio_err, bio_errno, bio_saved, bio_success,
              bio_ret, bio_logs, bio_fails>>

rep_vars == <<rp_pc, rp_err, rp_errno, rp_cmd, rp_args, rp_arg_max, rp_log>>

vars == <<fork_vars, group_vars, io_vars, spawn_vars, setup_vars, bio_vars, rep_vars>>

(***************************************************************************)
(* execute_fork                                                            *)
(***************************************************************************)

\* #define FORK_LAPS 5
FORK_LAPS == 5

\* #define JOIN_THREADS_BEFORE_FORK 0
JOIN_THREADS_BEFORE_FORK == FALSE

\* How many times the caller calls execute_fork in one run of the model.
MaxForkCalls == 2

\* The pids fork() may hand out (0 is fork()'s return value in the child).
MaxPid == 2
ForkPids == 0..MaxPid

\* The errors fork() fails with, and what nanosleep() may leave in errno.
ForkErrnos == {"EAGAIN", "ENOMEM"}
SleepErrnos == {"EINTR"}

ForkIdle ==
    /\ fk_pc = "idle"
    /\ fk_i = 0
    /\ fk_errno = "0"
    /\ fk_ret = -1
    /\ fk_drained = FALSE
    /\ g_fork_count = 0
    /\ fk_sleeps = 0
    /\ fk_efails = 0
    /\ fk_child = -1
    /\ fk_lasterr = "none"
    /\ fk_reported = "none"

\* for (i = 0; i < FORK_LAPS; i++): the loop test.
LapsRemain_TooFew(i) == i < FORK_LAPS - 1
LapsRemain(i) == i < FORK_LAPS

\* if (i != FORK_LAPS - 1) nanosleep(...)
ShouldSleep_Always(i) == TRUE
ShouldSleep(i) == i # FORK_LAPS - 1

\* Entry of execute_fork up to the loop: the optional drain, g_fork_count++, i = 0.
\* The caller calls again only after a return (FATAL_EXIT ends the process).
ExecuteForkEnter(wait_for_threads_to_die) ==
    /\ fk_pc \in {"idle", "returned"}
    /\ g_fork_count < MaxForkCalls
    /\ fk_drained' = (wait_for_threads_to_die \/ JOIN_THREADS_BEFORE_FORK)
    /\ g_fork_count' = g_fork_count + 1
    /\ fk_i' = 0
    /\ fk_pc' = IF LapsRemain(0) THEN "lap" ELSE "fatal"
    /\ fk_ret' = -1
    /\ fk_sleeps' = 0
    /\ fk_efails' = 0
    /\ fk_child' = -1
    /\ fk_lasterr' = "none"
    /\ UNCHANGED <<setup_vars, bio_vars, rep_vars,
                   fk_errno, fk_reported, group_vars, io_vars, spawn_vars>>

\* pid = fork(); if (pid >= 0) return pid;
ForkSucceeds(pid) ==
    /\ fk_pc = "lap"
    /\ fk_child' = pid
    /\ fk_ret' = pid
    /\ fk_pc' = "returned"
    /\ UNCHANGED <<setup_vars, bio_vars, rep_vars,
                   fk_i, fk_errno, fk_drained, g_fork_count, fk_sleeps,
                   fk_efails, fk_lasterr, fk_reported, group_vars, io_vars, spawn_vars>>

\* pid = fork() fails and sets errno: break unless EAGAIN; on EAGAIN either go
\* to sleep or, on the final lap, fall straight through to i++ and the loop test.
ForkFails(e) ==
    /\ fk_pc = "lap"
    /\ fk_errno' = e
    /\ fk_lasterr' = e
    /\ fk_efails' = IF e = "EAGAIN" THEN fk_efails + 1 ELSE fk_efails
    /\ IF e # "EAGAIN"
         THEN fk_pc' = "fatal" /\ fk_i' = fk_i
         ELSE IF ShouldSleep(fk_i)
                THEN fk_pc' = "sleep" /\ fk_i' = fk_i
                ELSE /\ fk_i' = fk_i + 1
                     /\ fk_pc' = IF LapsRemain(fk_i + 1) THEN "lap" ELSE "fatal"
    /\ UNCHANGED <<setup_vars, bio_vars, rep_vars,
                   fk_ret, fk_drained, g_fork_count, fk_sleeps, fk_child,
                   fk_reported, group_vars, io_vars, spawn_vars>>

\* nanosleep(&pollint, NULL), which may overwrite errno; then i++ and the loop test.
Nanosleep(clobber) ==
    /\ fk_pc = "sleep"
    /\ fk_sleeps' = fk_sleeps + 1
    /\ fk_errno' = clobber
    /\ fk_i' = fk_i + 1
    /\ fk_pc' = IF LapsRemain(fk_i + 1) THEN "lap" ELSE "fatal"
    /\ UNCHANGED <<setup_vars, bio_vars, rep_vars,
                   fk_ret, fk_drained, g_fork_count, fk_efails, fk_child,
                   fk_lasterr, fk_reported, group_vars, io_vars, spawn_vars>>

\* debug_safe(0, FORK_ERROR); safe_perror("fork"); FATAL_EXIT(). debug_safe
\* hands errno back as it found it, so safe_perror names the errno of the loop.
FatalExit ==
    /\ fk_pc = "fatal"
    /\ fk_reported' = fk_errno
    /\ fk_pc' = "exited"
    /\ UNCHANGED <<setup_vars, bio_vars, rep_vars,
                   fk_i, fk_errno, fk_ret, fk_drained, g_fork_count,
                   fk_sleeps, fk_efails, fk_child, fk_lasterr, group_vars, io_vars, spawn_vars>>

ForkNext ==
    \/ \E w \in BOOLEAN : ExecuteForkEnter(w)
    \/ \E pid \in ForkPids : ForkSucceeds(pid)
    \/ \E e \in ForkErrnos : ForkFails(e)
    \/ \E c \in SleepErrnos \cup {fk_errno} : Nanosleep(c)
    \/ FatalExit

(***************************************************************************)
(* handle_child_io                                                         *)
(***************************************************************************)

\* The fds an IoChain entry may name are 0..MaxFd; a chain has at most
\* MaxChain entries.
MaxFd == 2
MaxChain == 2

Fds == 0..MaxFd

\* The fd table has one slot more than the chain can name: the process's fd
\* limit is far above the fds in play, so open() always finds a free fd.
Slots == 0..(MaxFd + 1)

Closed == <<"closed", 0>>
InitDesc(fd) == <<"init", fd>>
FileDesc == <<"file", 1>>

\* The files an IO_FILE entry names: "out" can be opened, "missing" cannot.
Files == {"out", "missing"}

\* The pipe pair pipe() made, and pairs with one half unset (-1).
PipePairs == {<<MaxFd - 1, MaxFd>>, <<-1, MaxFd>>, <<MaxFd - 1, -1>>}

NoPair == <<-1, -1>>

\* io_data_t and its subclasses; the IO_PIPE entries stand for IO_BUFFER too,
\* which shares their case.
IoClose(fd) ==
    [io_mode |-> "IO_CLOSE", fd |-> fd, old_fd |-> -1, file |-> "",
     pipe_fd |-> NoPair, is_input |-> FALSE]
IoFile(fd, file) ==
    [io_mode |-> "IO_FILE", fd |-> fd, old_fd |-> -1, file |-> file,
     pipe_fd |-> NoPair, is_input |-> FALSE]
IoFd(fd, old_fd) ==
    [io_mode |-> "IO_FD", fd |-> fd, old_fd |-> old_fd, file |-> "",
     pipe_fd |-> NoPair, is_input |-> FALSE]
IoPipe(fd, pair, is_input) ==
    [io_mode |-> "IO_PIPE", fd |-> fd, old_fd |-> -1, file |-> "",
     pipe_fd |-> pair, is_input |-> is_input]

Entries ==
    {IoClose(fd) : fd \in Fds}
        \cup {IoFile(fd, f) : fd \in Fds, f \in Files}
        \cup {IoFd(fd, old) : fd \in Fds, old \in Fds}
        \cup {IoPipe(fd, pr, inp) : fd \in Fds, pr \in PipePairs, inp \in BOOLEAN}

Chains == UNION {[1..n -> Entries] : n \in 0..MaxChain}

\* The fd tables a freshly forked child starts from: every fd open on a
\* description of its own, except that stdin and the fds of the pipe pair
\* may be closed.
InitTables ==
    {[fd \in Slots |-> IF fd \in Fds \ c THEN InitDesc(fd) ELSE Closed] :
        c \in SUBSET {0, MaxFd - 1, MaxFd}}

IsOpen(t, fd) == fd \in DOMAIN t /\ t[fd] # Closed

\* close(fd): closes an open fd; on a closed or invalid fd it fails and
\* changes nothing.
SysClose(t, fd) == IF IsOpen(t, fd) THEN [t EXCEPT ![fd] = Closed] ELSE t

\* dup2(old, new): fails unless old is open; new then refers to old's
\* description (dup2(fd, fd) on an open fd changes nothing and returns fd).
SysDup2(t, old, new) ==
    IF IsOpen(t, old) THEN [ok |-> TRUE, t |-> [t EXCEPT ![new] = t[old]]]
                      ELSE [ok |-> FALSE, t |-> t]

LowestFree(t) == CHOOSE fd \in Slots : ~IsOpen(t, fd) /\ \A g \in 0..(fd - 1) : IsOpen(t, g)

\* open(filename, flags, OPEN_MASK): the lowest free fd, or -1.
SysOpen(t, file) ==
    IF file = "out"
      THEN [fd |-> LowestFree(t), t |-> [t EXCEPT ![LowestFree(t)] = FileDesc]]
      ELSE [fd |-> -1, t |-> t]

\* if (io->io_mode == IO_FD && io->fd == old_fd) continue;
SkipsEntry_Never(io) == FALSE
SkipsEntry(io) == io.io_mode = "IO_FD" /\ io.fd = io.old_fd

\* unsigned int write_pipe_idx = (io_pipe->is_input ? 0 : 1); pipe_fd[write_pipe_idx]
SelectedHalf(io) == IF io.is_input THEN io.pipe_fd[1] ELSE io.pipe_fd[2]

\* The IO_PIPE case's closes: pipe_fd[0] and pipe_fd[1], each if it is >= 0.
PipeCloses_None(io) == <<>>
PipeCloses_ReadHalfOnInput(io) ==
    IF io.is_input THEN SelectSeq(<<io.pipe_fd[1]>>, LAMBDA fd : fd >= 0)
                   ELSE SelectSeq(io.pipe_fd, LAMBDA fd : fd >= 0)
PipeCloses(io) == SelectSeq(io.pipe_fd, LAMBDA fd : fd >= 0)

RECURSIVE CloseAll(_, _)
CloseAll(t, fds) ==
    IF fds = <<>> THEN t ELSE CloseAll(SysClose(t, Head(fds)), Tail(fds))

\* exec_close(tmp) after the IO_FILE case's dup2.
CloseTmp_Leak(t, tmp) == t
CloseTmp(t, tmp) == SysClose(t, tmp)

\* One turn of handle_child_io's loop on entry io: the fd table it leaves
\* and whether the loop goes on (ok) or the function returns -1.
ApplyEntry(io, t) ==
    IF SkipsEntry(io) THEN [ok |-> TRUE, t |-> t]
    ELSE CASE io.io_mode = "IO_CLOSE" -> [ok |-> TRUE, t |-> SysClose(t, io.fd)]
           [] io.io_mode = "IO_FILE" ->
                LET o == SysOpen(t, io.file)
                    d == SysDup2(SysClose(o.t, io.fd), o.fd, io.fd)
                IN IF o.fd < 0 THEN [ok |-> FALSE, t |-> t]
                   ELSE IF o.fd # io.fd THEN [ok |-> d.ok, t |-> CloseTmp(d.t, o.fd)]
                   ELSE [ok |-> TRUE, t |-> o.t]
           [] io.io_mode = "IO_FD" ->
                SysDup2(SysClose(t, io.fd), io.old_fd, io.fd)
           [] io.io_mode = "IO_PIPE" ->
                LET d == SysDup2(t, SelectedHalf(io), io.fd)
                IN IF d.ok THEN [ok |-> TRUE, t |-> CloseAll(d.t, PipeCloses(io))]
                           ELSE [ok |-> FALSE, t |-> t]

\* handle_child_io as a whole: the table and the return value.
RECURSIVE RunChain(_, _)
RunChain(chain, t) ==
    IF chain = <<>> THEN [ret |-> 0, t |-> t]
    ELSE LET r == ApplyEntry(Head(chain), t)
         IN IF r.ok THEN RunChain(Tail(chain), r.t) ELSE [ret |-> -1, t |-> r.t]

IoIdle ==
    /\ io_chain = <<>>
    /\ io_fds = [fd \in Slots |-> Closed]
    /\ io_fds0 = [fd \in Slots |-> Closed]
    /\ io_prev = [fd \in Slots |-> Closed]
    /\ io_idx = 0
    /\ io_pc = "done"
    /\ io_ret = 0

\* The loop body for io_chain.at(idx): the entry is applied and the loop goes
\* on, or the function returns -1 with what the entry did so far left in place.
\* (HandleChildIoStep_GoesOn: the loop going on after a fatal failure.)
HandleChildIoStep_GoesOn ==
    /\ io_pc = "run"
    /\ io_idx < Len(io_chain)
    /\ io_fds' = ApplyEntry(io_chain[io_idx + 1], io_fds).t
    /\ io_pc' = "run"
    /\ io_ret' = 0
    /\ io_prev' = io_fds
    /\ io_idx' = io_idx + 1
    /\ UNCHANGED <<setup_vars, bio_vars, rep_vars,
                   fork_vars, group_vars, spawn_vars, io_chain, io_fds0>>
HandleChildIoStep ==
    /\ io_pc = "run"
    /\ io_idx < Len(io_chain)
    /\ LET r == ApplyEntry(io_chain[io_idx + 1], io_fds)
       IN /\ io_fds' = r.t
          /\ io_pc' = IF r.ok THEN "run" ELSE "done"
          /\ io_ret' = IF r.ok THEN 0 ELSE -1
    /\ io_prev' = io_fds
    /\ io_idx' = io_idx + 1
    /\ UNCHANGED <<setup_vars, bio_vars, rep_vars,
                   fork_vars, group_vars, spawn_vars, io_chain, io_fds0>>

\* Whether the loop body for entry io reaches a dup2 call: not skipped, and
\* for IO_FILE the open succeeded on an fd other than the target.
MakesDup2(io, t) ==
    /\ ~SkipsEntry(io)
    /\ \/ io.io_mode \in {"IO_FD", "IO_PIPE"}
       \/ io.io_mode = "IO_FILE" /\ SysOpen(t, io.file).fd \notin {-1, io.fd}

\* The loop body when its dup2 call fails although the source fd is open
\* (EINTR, EBUSY, a target above the fd limit): what was done before the call
\* stays, IO_FILE closes tmp, and the function returns -1.
ApplyEntryDup2Fails(io, t) ==
    CASE io.io_mode = "IO_FILE" ->
             LET o == SysOpen(t, io.file)
             IN [ok |-> FALSE, t |-> CloseTmp(SysClose(o.t, io.fd), o.fd)]
      [] io.io_mode = "IO_FD" -> [ok |-> FALSE, t |-> SysClose(t, io.fd)]
      [] io.io_mode = "IO_PIPE" -> [ok |-> FALSE, t |-> t]

\* The loop body for io_chain.at(idx) with the kernel refusing its dup2.
HandleChildIoDup2Fails ==
    /\ io_pc = "run"
    /\ io_idx < Len(io_chain)
    /\ MakesDup2(io_chain[io_idx + 1], io_fds)
    /\ ApplyEntry(io_chain[io_idx + 1], io_fds).ok
    /\ io_fds' = ApplyEntryDup2Fails(io_chain[io_idx + 1], io_fds).t
    /\ io_pc' = "done"
    /\ io_ret' = -1
    /\ io_prev' = io_fds
    /\ io_idx' = io_idx + 1
    /\ UNCHANGED <<setup_vars, bio_vars, rep_vars,
                   fork_vars, group_vars, spawn_vars, io_chain, io_fds0>>

\* idx == io_chain.size(): return 0.
HandleChildIoReturn ==
    /\ io_pc = "run"
    /\ io_idx = Len(io_chain)
    /\ io_pc' = "done"
    /\ io_ret' = 0
    /\ UNCHANGED <<setup_vars, bio_vars, rep_vars,
                   fork_vars, group_vars, spawn_vars, io_chain, io_fds, io_fds0, io_prev, io_idx>>

IoNext == HandleChildIoStep \/ HandleChildIoReturn

\* handle_child_io in a process whose dup2 calls may also fail on an open source.
IoFaultNext == IoNext \/ HandleChildIoDup2Fails

(***************************************************************************)
(* fork_actions_make_spawn_properties: the file actions                    *)
(***************************************************************************)

FaClose(fd) == [op |-> "close", fd |-> fd, from |-> -1, file |-> ""]
FaDup2(from, to) == [op |-> "dup2", fd |-> to, from |-> from, file |-> ""]
FaOpen(fd, file) == [op |-> "open", fd |-> fd, from |-> -1, file |-> file]

\* The IO_PIPE case's closes in the builder: both halves when
\* write_pipe_idx > 0, pipe_fd[0] alone otherwise.
SpawnPipeCloses(io) ==
    IF ~io.is_input THEN <<FaClose(io.pipe_fd[1]), FaClose(io.pipe_fd[2])>>
                    ELSE <<FaClose(io.pipe_fd[1])>>

\* The file actions the builder's loop appends for one chain entry.
EntryActions(io) ==
    IF SkipsEntry(io) THEN <<>>
    ELSE CASE io.io_mode = "IO_CLOSE" -> <<FaClose(io.fd)>>
           [] io.io_mode = "IO_FILE" -> <<FaOpen(io.fd, io.file)>>
           [] io.io_mode = "IO_FD" -> <<FaDup2(io.old_fd, io.fd)>>
           [] io.io_mode = "IO_PIPE" ->
                <<FaDup2(SelectedHalf(io), io.fd)>> \o SpawnPipeCloses(io)

\* posix_spawn_file_actions_addclose / adddup2 refuse a negative fd (EBADF).
AppendRefused(a) == a.fd < 0 \/ (a.op = "dup2" /\ a.from < 0)

\* The file-action list of a whole chain when no append runs out of memory:
\* ok is false when an append was refused (err is set, the rest is skipped).
RECURSIVE FileActions(_)
FileActions(chain) ==
    IF chain = <<>> THEN [ok |-> TRUE, actions |-> <<>>]
    ELSE LET as == EntryActions(Head(chain))
             rest == FileActions(Tail(chain))
         IN IF \E k \in 1..Len(as) : AppendRefused(as[k])
              THEN [ok |-> FALSE, actions |-> <<>>]
              ELSE [ok |-> rest.ok, actions |-> as \o rest.actions]

\* posix_spawn carrying out one file action in the new process: an open
\* lands on the wanted fd as in the IO_FILE case, a close that fails is
\* passed over, a failed open or dup2 fails the spawn.
ExecAction(a, t) ==
    CASE a.op = "close" -> [ok |-> TRUE, t |-> SysClose(t, a.fd)]
      [] a.op = "dup2" -> SysDup2(t, a.from, a.fd)
      [] a.op = "open" ->
           LET o == SysOpen(t, a.file)
               d == SysDup2(o.t, o.fd, a.fd)
           IN IF o.fd < 0 THEN [ok |-> FALSE, t |-> t]
              ELSE IF o.fd # a.fd THEN [ok |-> d.ok, t |-> SysClose(d.t, o.fd)]
              ELSE [ok |-> TRUE, t |-> o.t]

RECURSIVE SpawnExec(_, _)
SpawnExec(actions, t) ==
    IF actions = <<>> THEN [ok |-> TRUE, t |-> t]
    ELSE LET r == ExecAction(Head(actions), t)
         IN IF r.ok THEN SpawnExec(Tail(actions), r.t) ELSE [ok |-> FALSE, t |-> r.t]

(***************************************************************************)
(* child_set_group / set_child_group                                       *)
(***************************************************************************)

\* How many processes the job has, and how often a child re-issues setpgid.
MaxProcs == 2
MaxRetries == 2

Procs == 1..MaxProcs

\* New jobs have the pgid set to -2.
Unassigned == -2

\* getpgrp() in the shell and in a child that has not called setpgid: the
\* shell's own process group.
ShellPgrp == 1

\* The pids the job's children get: positive, and none of them the shell's group.
ChildPids == (ShellPgrp + 1)..(ShellPgrp + MaxPid)

\* What setpgid() fails with.
SetpgidErrnos == {"EPERM", "EINTR", "ESRCH"}

NoLog == [tty |-> 0, pgid |-> 0, gave |-> FALSE, ret |-> TRUE]

GroupIdle ==
    /\ jb_flags = [control |-> FALSE, terminal |-> FALSE, foreground |-> FALSE]
    /\ j_pgid = Unassigned
    /\ gp_n = 0
    /\ gp_pid = [i \in Procs |-> 0]
    /\ cj_pgid = [i \in Procs |-> Unassigned]
    /\ ch_entry = [i \in Procs |-> Unassigned]
    /\ ch_pc = [i \in Procs |-> "unborn"]
    /\ ch_failure = [i \in Procs |-> 0]
    /\ ch_errno = [i \in Procs |-> "0"]
    /\ ch_tries = [i \in Procs |-> 0]
    /\ ch_ret = [i \in Procs |-> TRUE]
    /\ ch_rechecked = [i \in Procs |-> FALSE]
    /\ k_pgrp = [i \in Procs |-> ShellPgrp]
    /\ tty_pgrp = ShellPgrp
    /\ par_pc = [i \in Procs |-> "wait"]
    /\ par_log = [i \in Procs |-> NoLog]
    /\ tty_gives = 0
    /\ pgid_writes = {}

\* child_set_group's assignment to j->pgid: with JOB_CONTROL only a pgid of -2
\* is replaced, by p->pid; without it j->pgid = getpgrp() always.
ChildAssignPgid_Always(control, pgid, pid, pgrp) ==
    IF control THEN [wrote |-> TRUE, pgid |-> pid]
               ELSE [wrote |-> TRUE, pgid |-> pgrp]
ChildAssignPgid(control, pgid, pid, pgrp) ==
    IF control
      THEN IF pgid = Unassigned THEN [wrote |-> TRUE, pgid |-> pid]
                                ELSE [wrote |-> FALSE, pgid |-> pgid]
      ELSE [wrote |-> TRUE, pgid |-> pgrp]

\* set_child_group's assignment to j->pgid, the same rule with child_pid.
ParentAssignPgid_Never(control, pgid, child_pid, pgrp) ==
    IF control THEN [wrote |-> FALSE, pgid |-> pgid]
               ELSE [wrote |-> TRUE, pgid |-> pgrp]
ParentAssignPgid_Always(control, pgid, child_pid, pgrp) ==
    IF control THEN [wrote |-> TRUE, pgid |-> child_pid]
               ELSE [wrote |-> TRUE, pgid |-> pgrp]
ParentAssignPgid(control, pgid, child_pid, pgrp) ==
    IF control
      THEN IF pgid = Unassigned THEN [wrote |-> TRUE, pgid |-> child_pid]
                                ELSE [wrote |-> FALSE, pgid |-> pgid]
      ELSE [wrote |-> TRUE, pgid |-> pgrp]

\* set_child_group: whether terminal_give_to_job is called.
CallsGive_NoSkip(flags, tty, pgid) == flags.terminal /\ flags.foreground
CallsGive(flags, tty, pgid) ==
    flags.terminal /\ flags.foreground /\ tty # pgid

\* terminal_give_to_job(j, false): hands the terminal to the job's pgid and
\* reports success, or fails and leaves the terminal as it was.
terminal_give_to_job(pgid, tty, ok) ==
    IF ok THEN [tty |-> pgid, ret |-> TRUE] ELSE [tty |-> tty, ret |-> FALSE]

\* The kernel's setpgid(pid, pgid) can succeed when pgid names the caller
\* itself (a new group) or a group some process of the job is in.
GroupExists(pgid, pid) ==
    pgid = pid \/ pgid = ShellPgrp \/ \E i \in Procs : ch_pc[i] # "unborn" /\ k_pgrp[i] = pgid

\* The launcher forks the job's next process once set_child_group has been
\* called for the one before; the child works on its own copy of the job,
\* with p->pid its own pid.
GroupFork(pid) ==
    /\ gp_n < MaxProcs
    /\ gp_n > 0 => par_pc[gp_n] = "done"
    /\ \A i \in Procs : gp_pid[i] # pid
    /\ gp_n' = gp_n + 1
    /\ gp_pid' = [gp_pid EXCEPT ![gp_n + 1] = pid]
    /\ cj_pgid' = [cj_pgid EXCEPT ![gp_n + 1] = j_pgid]
    /\ ch_pc' = [ch_pc EXCEPT ![gp_n + 1] = "enter"]
    /\ UNCHANGED <<setup_vars, bio_vars, rep_vars,
                   fork_vars, io_vars, spawn_vars, ch_rechecked, jb_flags, j_pgid, ch_entry, ch_failure, ch_errno,
                   ch_tries, ch_ret, k_pgrp, tty_pgrp, par_pc, par_log,
                   tty_gives, pgid_writes>>

\* child_set_group up to the first setpgid: retval = true and the pgid
\* assignment; without JOB_CONTROL the function is over.
ChildEnter(i) ==
    /\ ch_pc[i] = "enter"
    /\ LET a == ChildAssignPgid(jb_flags.control, cj_pgid[i], gp_pid[i], k_pgrp[i])
       IN /\ cj_pgid' = [cj_pgid EXCEPT ![i] = a.pgid]
          /\ pgid_writes' = IF a.wrote
                              THEN pgid_writes \cup
                                     {[by |-> "child", proc |-> i,
                                       old |-> cj_pgid[i], new |-> a.pgid]}
                              ELSE pgid_writes
    /\ ch_entry' = [ch_entry EXCEPT ![i] = cj_pgid[i]]
    /\ ch_ret' = [ch_ret EXCEPT ![i] = TRUE]
    /\ ch_pc' = [ch_pc EXCEPT ![i] = IF jb_flags.control THEN "setpgid" ELSE "done"]
    /\ UNCHANGED <<setup_vars, bio_vars, rep_vars,
                   fork_vars, io_vars, spawn_vars, ch_rechecked, jb_flags, j_pgid, gp_n, gp_pid, ch_failure,
                   ch_errno, ch_tries, k_pgrp, tty_pgrp, par_pc, par_log, tty_gives>>

\* failure = setpgid(p->pid, j->pgid) succeeds: the kernel moves the child.
ChildSetpgidOk(i) ==
    /\ ch_pc[i] = "setpgid"
    /\ GroupExists(cj_pgid[i], gp_pid[i])
    /\ k_pgrp' = [k_pgrp EXCEPT ![i] = cj_pgid[i]]
    /\ ch_failure' = [ch_failure EXCEPT ![i] = 0]
    /\ ch_tries' = [ch_tries EXCEPT ![i] = @ + 1]
    /\ ch_pc' = [ch_pc EXCEPT ![i] = "check"]
    /\ UNCHANGED <<setup_vars, bio_vars, rep_vars,
                   fork_vars, io_vars, spawn_vars, ch_rechecked, jb_flags, j_pgid, gp_n, gp_pid, cj_pgid, ch_entry,
                   ch_errno, ch_ret, tty_pgrp, par_pc, par_log, tty_gives,
                   pgid_writes>>

\* while (failure == -1 && (errno == EPERM || errno == EINTR))
RetriesSetpgid_OnlyOnEperm(failure, errno) == failure = -1 /\ errno = "EPERM"
RetriesSetpgid(failure, errno) == failure = -1 /\ errno \in {"EPERM", "EINTR"}

\* failure = setpgid(p->pid, j->pgid) fails with e: the while loop re-issues
\* the call on EPERM and EINTR and is left on any other error. The kernel
\* answers EPERM or EINTR to at most MaxRetries calls of a child.
ChildSetpgidFails(i, e) ==
    /\ ch_pc[i] = "setpgid"
    /\ (e \in {"EPERM", "EINTR"}) => ch_tries[i] < MaxRetries
    /\ ch_failure' = [ch_failure EXCEPT ![i] = -1]
    /\ ch_errno' = [ch_errno EXCEPT ![i] = e]
    /\ ch_tries' = [ch_tries EXCEPT ![i] = @ + 1]
    /\ ch_pc' = [ch_pc EXCEPT ![i] = IF RetriesSetpgid(-1, e) THEN "setpgid"
                                                               ELSE "check"]
    /\ UNCHANGED <<setup_vars, bio_vars, rep_vars,
                   fork_vars, io_vars, spawn_vars, ch_rechecked, jb_flags, j_pgid, gp_n, gp_pid, cj_pgid, ch_entry,
                   ch_ret, k_pgrp, tty_pgrp, par_pc, par_log, tty_gives,
                   pgid_writes>>

\* failure = failure && getpgid(p->pid) != j->pgid: getpgid is asked only when
\* failure is nonzero (&& short-circuits), that is after a failed setpgid.
StillFailed_Never(failure, pgrp, pgid) == FALSE
StillFailed(failure, pgrp, pgid) == failure # 0 /\ pgrp # pgid

\* failure = failure && getpgid(p->pid) != j->pgid; if (failure) { ...; retval = false; }
ChildCheck(i) ==
    /\ ch_pc[i] = "check"
    /\ ch_ret' = [ch_ret EXCEPT ![i] = ~StillFailed(ch_failure[i], k_pgrp[i], cj_pgid[i])]
    /\ ch_rechecked' = [ch_rechecked EXCEPT ![i] = (ch_failure[i] # 0)]
    /\ ch_pc' = [ch_pc EXCEPT ![i] = "done"]
    /\ UNCHANGED <<setup_vars, bio_vars, rep_vars,
                   fork_vars, io_vars, spawn_vars, jb_flags, j_pgid, gp_n, gp_pid, cj_pgid, ch_entry,
                   ch_failure, ch_errno, ch_tries, k_pgrp, tty_pgrp, par_pc,
                   par_log, tty_gives, pgid_writes>>

\* set_child_group(j, gp_pid[i]) in the parent: the pgid assignment, then the
\* terminal handoff for a foreground job that owns the terminal.
SetChildGroup(i, give_ok) ==
    /\ i <= gp_n
    /\ par_pc[i] = "wait"
    /\ LET a == ParentAssignPgid(jb_flags.control, j_pgid, gp_pid[i], ShellPgrp)
           calls == CallsGive(jb_flags, tty_pgrp, a.pgid)
           g == terminal_give_to_job(a.pgid, tty_pgrp, give_ok)
       IN /\ j_pgid' = a.pgid
          /\ pgid_writes' = IF a.wrote
                              THEN pgid_writes \cup
                                     {[by |-> "parent", proc |-> i,
                                       old |-> j_pgid, new |-> a.pgid]}
                              ELSE pgid_writes
          /\ tty_pgrp' = IF calls THEN g.tty ELSE tty_pgrp
          /\ tty_gives' = IF calls /\ g.ret THEN tty_gives + 1 ELSE tty_gives
          /\ par_log' = [par_log EXCEPT ![i] =
                           [tty |-> tty_pgrp, pgid |-> a.pgid, gave |-> calls,
                            ret |-> IF calls THEN g.ret ELSE TRUE]]
    /\ par_pc' = [par_pc EXCEPT ![i] = "done"]
    /\ UNCHANGED <<setup_vars, bio_vars, rep_vars,
                   fork_vars, io_vars, spawn_vars, ch_rechecked, jb_flags, gp_n, gp_pid, cj_pgid, ch_entry, ch_pc,
                   ch_failure, ch_errno, ch_tries, ch_ret, k_pgrp>>

GroupNext ==
    \/ \E pid \in ChildPids : GroupFork(pid)
    \/ \E i \in Procs : ChildEnter(i)
    \/ \E i \in Procs : ChildSetpgidOk(i)
    \/ \E i \in Procs, e \in SetpgidErrnos : ChildSetpgidFails(i, e)
    \/ \E i \in Procs : ChildCheck(i)
    \/ \E i \in Procs, ok \in BOOLEAN : SetChildGroup(i, ok)

(***************************************************************************)
(* fork_actions_make_spawn_properties: the builder                         *)
(***************************************************************************)

\* posix_spawnattr_t and posix_spawn_file_actions_t before their init.
NoAttr ==
    [state |-> "uninit", inits |-> 0, destroys |-> 0, flags |-> {},
     pgroup |-> -1, sigdefault |-> "unset", sigmask |-> "unset"]
NoActions == [state |-> "uninit", inits |-> 0, destroys |-> 0, list |-> <<>>]

\* posix_spawnattr_init / posix_spawn_file_actions_init succeeding.
InitObj(o) == [o EXCEPT !.state = "init", !.inits = @ + 1]

\* posix_spawnattr_destroy / posix_spawn_file_actions_destroy.
DestroyObj(o) == [o EXCEPT !.state = "destroyed", !.destroys = @ + 1]

\* if (posix_spawn_file_actions_init(actions) != 0) { posix_spawnattr_destroy(attr); ... }
UnwindAttr_Leak(attr) == attr
UnwindAttr(attr) == DestroyObj(attr)

\* if (err) { posix_spawnattr_destroy(attr); posix_spawn_file_actions_destroy(actions); }
CleanUpOnError(err, attr, actions) ==
    IF err THEN [attr |-> DestroyObj(attr), actions |-> DestroyObj(actions)]
           ELSE [attr |-> attr, actions |-> actions]

\* should_set_process_group_id and desired_process_group_id.
ShouldSetPgroup(flags) == flags.control
DesiredPgroup_Raw(pgid) == pgid
DesiredPgroup(pgid) == IF pgid = Unassigned THEN 0 ELSE pgid

\* short flags: SETSIGDEF and SETSIGMASK always, SETPGROUP with job control.
SpawnFlags(flags) ==
    {"POSIX_SPAWN_SETSIGDEF", "POSIX_SPAWN_SETSIGMASK"}
        \cup (IF ShouldSetPgroup(flags) THEN {"POSIX_SPAWN_SETPGROUP"} ELSE {})

\* The chains the builder is run on redirect one target fd: it never looks
\* at the fd table, only at each entry's kind and fds.
SpawnChains == {c \in Chains : \A k \in 1..Len(c) : c[k].fd = MaxFd}

SpawnIdle ==
    /\ sp_pc = "idle"
    /\ sp_attr = NoAttr
    /\ sp_actions = NoActions
    /\ sp_err = FALSE
    /\ sp_idx = 0
    /\ sp_ret = FALSE

\* if (posix_spawnattr_init(attr) != 0) return false;
SpawnAttrInit(ok) ==
    /\ sp_pc = "attr_init"
    /\ sp_attr' = IF ok THEN InitObj(sp_attr) ELSE sp_attr
    /\ sp_pc' = IF ok THEN "actions_init" ELSE "done"
    /\ sp_ret' = FALSE
    /\ UNCHANGED <<setup_vars, bio_vars, rep_vars,
                   fork_vars, group_vars, io_vars, sp_actions, sp_err, sp_idx>>

\* if (posix_spawn_file_actions_init(actions) != 0) { destroy attr; return false; }
SpawnActionsInit(ok) ==
    /\ sp_pc = "actions_init"
    /\ sp_actions' = IF ok THEN InitObj(sp_actions) ELSE sp_actions
    /\ sp_attr' = IF ok THEN sp_attr ELSE UnwindAttr(sp_attr)
    /\ sp_pc' = IF ok THEN "setflags" ELSE "done"
    /\ sp_ret' = FALSE
    /\ UNCHANGED <<setup_vars, bio_vars, rep_vars,
                   fork_vars, group_vars, io_vars, sp_err, sp_idx>>

\* if (!err) err = posix_spawnattr_setflags(attr, flags);
SpawnSetFlags(ok) ==
    /\ sp_pc = "setflags"
    /\ sp_attr' = IF ok THEN [sp_attr EXCEPT !.flags = SpawnFlags(jb_flags)] ELSE sp_attr
    /\ sp_err' = ~ok
    /\ sp_pc' = "setpgroup"
    /\ UNCHANGED <<setup_vars, bio_vars, rep_vars,
                   fork_vars, group_vars, io_vars, sp_actions, sp_idx, sp_ret>>

\* if (!err && should_set_process_group_id)
\*     err = posix_spawnattr_setpgroup(attr, desired_process_group_id);
SpawnSetPgroup(ok) ==
    /\ sp_pc = "setpgroup"
    /\ LET call == ~sp_err /\ ShouldSetPgroup(jb_flags)
       IN /\ sp_attr' = IF call /\ ok
                          THEN [sp_attr EXCEPT !.pgroup = DesiredPgroup(j_pgid)]
                          ELSE sp_attr
          /\ sp_err' = IF call THEN ~ok ELSE sp_err
    /\ sp_pc' = "setsigdefault"
    /\ UNCHANGED <<setup_vars, bio_vars, rep_vars,
                   fork_vars, group_vars, io_vars, sp_actions, sp_idx, sp_ret>>

\* if (!err && reset_signal_handlers) { get_signals_with_handlers(&sigdefault);
\*     err = posix_spawnattr_setsigdefault(attr, &sigdefault); }
SpawnSetSigDefault(ok) ==
    /\ sp_pc = "setsigdefault"
    /\ sp_attr' = IF ~sp_err /\ ok THEN [sp_attr EXCEPT !.sigdefault = "handled"]
                                   ELSE sp_attr
    /\ sp_err' = IF ~sp_err THEN ~ok ELSE sp_err
    /\ sp_pc' = "setsigmask"
    /\ UNCHANGED <<setup_vars, bio_vars, rep_vars,
                   fork_vars, group_vars, io_vars, sp_actions, sp_idx, sp_ret>>

\* sigemptyset(&sigmask); if (!err && reset_sigmask) err = posix_spawnattr_setsigmask(...)
SpawnSetSigMask(ok) ==
    /\ sp_pc = "setsigmask"
    /\ sp_attr' = IF ~sp_err /\ ok THEN [sp_attr EXCEPT !.sigmask = "empty"]
                                   ELSE sp_attr
    /\ sp_err' = IF ~sp_err THEN ~ok ELSE sp_err
    /\ sp_pc' = "loop"
    /\ UNCHANGED <<setup_vars, bio_vars, rep_vars,
                   fork_vars, group_vars, io_vars, sp_actions, sp_idx, sp_ret>>

\* The loop body for io_chain.at(idx): each append is made only if (!err); the
\* first n of the entry's appends succeed, and the next one, if any, fails.
SpawnAppendEntry(n) ==
    /\ sp_pc = "loop"
    /\ sp_idx < Len(io_chain)
    /\ LET as == EntryActions(io_chain[sp_idx + 1])
       IN /\ n <= Len(as)
          /\ \A k \in 1..n : ~AppendRefused(as[k])
          /\ sp_err => n = Len(as)
          /\ sp_actions' = IF sp_err THEN sp_actions
                           ELSE [sp_actions EXCEPT !.list = @ \o SubSeq(as, 1, n)]
          /\ sp_err' = (sp_err \/ n < Len(as))
    /\ sp_idx' = sp_idx + 1
    /\ UNCHANGED <<setup_vars, bio_vars, rep_vars,
                   fork_vars, group_vars, io_vars, sp_pc, sp_attr, sp_ret>>

\* After the loop: clean up on error; return !err.
SpawnReturn ==
    /\ sp_pc = "loop"
    /\ sp_idx = Len(io_chain)
    /\ LET c == CleanUpOnError(sp_err, sp_attr, sp_actions)
       IN sp_attr' = c.attr /\ sp_actions' = c.actions
    /\ sp_ret' = ~sp_err
    /\ sp_pc' = "done"
    /\ UNCHANGED <<setup_vars, bio_vars, rep_vars,
                   fork_vars, group_vars, io_vars, sp_err, sp_idx>>

SpawnNext ==
    \/ \E ok \in BOOLEAN : SpawnAttrInit(ok)
    \/ \E ok \in BOOLEAN : SpawnActionsInit(ok)
    \/ \E ok \in BOOLEAN : SpawnSetFlags(ok)
    \/ \E ok \in BOOLEAN : SpawnSetPgroup(ok)
    \/ \E ok \in BOOLEAN : SpawnSetSigDefault(ok)
    \/ \E ok \in BOOLEAN : SpawnSetSigMask(ok)
    \/ \E n \in 0..3 : SpawnAppendEntry(n)
    \/ SpawnReturn

(***************************************************************************)
(* setup_child_process                                                     *)
(***************************************************************************)

SetupIdle ==
    /\ su_pc = "idle"
    /\ su_p_null = FALSE
    /\ su_ret = 1
    /\ su_exit = -1
    /\ su_resets = 0
    /\ su_reset_at = -1

\* if (p != 0 && !ok) { debug_safe(...); exit_without_destructors(1); }
ExitsOnFailure_AlsoWithoutContext(p_null, ok) == ~ok
ExitsOnFailure(p_null, ok) == ~p_null /\ ~ok

\* What follows ok = (0 == handle_child_io(io_chain)): the exit on failure
\* with a process context; signal_reset_handlers() if ok; return ok ? 0 : -1.
SetupAfterIo ==
    /\ su_pc = "io"
    /\ io_pc = "done"
    /\ LET ok == (0 = io_ret)
       IN IF ExitsOnFailure(su_p_null, ok)
            THEN /\ su_exit' = 1
                 /\ su_pc' = "exited"
                 /\ UNCHANGED <<su_ret, su_resets, su_reset_at>>
            ELSE /\ su_resets' = IF ok THEN su_resets + 1 ELSE su_resets
                 /\ su_reset_at' = IF ok THEN io_idx ELSE su_reset_at
                 /\ su_ret' = IF ok THEN 0 ELSE -1
                 /\ su_pc' = "returned"
                 /\ UNCHANGED su_exit
    /\ UNCHANGED <<fork_vars, group_vars, io_vars, spawn_vars, bio_vars, rep_vars, su_p_null>>

\* setup_child_process: handle_child_io's loop, then the rest.
SetupNext == IoFaultNext \/ SetupAfterIo

(***************************************************************************)
(* do_builtin_io                                                           *)
(***************************************************************************)

BioIdle ==
    /\ bio_pc = "idle"
    /\ bio_out = FALSE
    /\ bio_err = FALSE
    /\ bio_errno = "0"
    /\ bio_saved = "0"
    /\ bio_success = TRUE
    /\ bio_ret = TRUE
    /\ bio_logs = <<>>
    /\ bio_fails = <<>>

\* What write_loop() leaves in errno when it returns a negative value.
WriteErrnos == {"EPIPE", "EIO", "EBADF"}

\* if (errno != EPIPE) { debug_safe(...); errno = saved_errno; safe_perror(...); }
LogsStdoutFailure_Always(e) == TRUE
LogsStdoutFailure(e) == e # "EPIPE"

\* if (out && outlen && write_loop(STDOUT_FILENO, out, outlen) < 0): r is what
\* write_loop does, "ok" or the errno it fails with; without a buffer it is
\* not called.
BioWriteOut(r) ==
    /\ bio_pc = "out"
    /\ ~bio_out => r = "ok"
    /\ IF r = "ok"
         THEN /\ bio_pc' = "err"
              /\ UNCHANGED <<bio_errno, bio_saved, bio_success, bio_fails>>
         ELSE /\ bio_errno' = r
              /\ bio_saved' = r
              /\ bio_success' = FALSE
              /\ bio_fails' = Append(bio_fails, <<"stdout", r>>)
              /\ bio_pc' = IF LogsStdoutFailure(r) THEN "log" ELSE "err"
    /\ UNCHANGED <<fork_vars, group_vars, io_vars, spawn_vars, setup_vars, rep_vars,
                   bio_out, bio_err, bio_ret, bio_logs>>

\* debug_safe(0, "Error while writing to stdout"); errno = saved_errno;
\* safe_perror("write_loop"): the report names saved_errno; the writes the
\* two calls make may leave errno at c.
BioLog(c) ==
    /\ bio_pc = "log"
    /\ bio_logs' = Append(bio_logs, <<"stdout", bio_saved>>)
    /\ bio_errno' = c
    /\ bio_pc' = "err"
    /\ UNCHANGED <<fork_vars, group_vars, io_vars, spawn_vars, setup_vars, rep_vars,
                   bio_out, bio_err, bio_saved, bio_success, bio_ret, bio_fails>>

\* if (err && errlen && write_loop(STDERR_FILENO, err, errlen) < 0)
\*     { saved_errno = errno; success = false; }
BioWriteErr(r) ==
    /\ bio_pc = "err"
    /\ ~bio_err => r = "ok"
    /\ IF r = "ok"
         THEN UNCHANGED <<bio_errno, bio_saved, bio_success, bio_fails>>
         ELSE /\ bio_errno' = r
              /\ bio_saved' = r
              /\ bio_success' = FALSE
              /\ bio_fails' = Append(bio_fails, <<"stderr", r>>)
    /\ bio_pc' = "ret"
    /\ UNCHANGED <<fork_vars, group_vars, io_vars, spawn_vars, setup_vars, rep_vars,
                   bio_out, bio_err, bio_ret, bio_logs>>

\* errno = saved_errno; return success;
BioReturn ==
    /\ bio_pc = "ret"
    /\ bio_errno' = bio_saved
    /\ bio_ret' = bio_success
    /\ bio_pc' = "done"
    /\ UNCHANGED <<fork_vars, group_vars, io_vars, spawn_vars, setup_vars, rep_vars,
                   bio_out, bio_err, bio_saved, bio_success, bio_logs, bio_fails>>

BioNext ==
    \/ \E r \in {"ok"} \cup WriteErrnos : BioWriteOut(r)
    \/ \E c \in {bio_errno} \cup WriteErrnos : BioLog(c)
    \/ \E r \in {"ok"} \cup WriteErrnos : BioWriteErr(r)
    \/ BioReturn

(***************************************************************************)
(* safe_report_exec_error                                                  *)
(***************************************************************************)

ReportIdle ==
    /\ rp_pc = "idle"
    /\ rp_err = "0"
    /\ rp_errno = "0"
    /\ rp_cmd = [exists |-> FALSE, interp |-> "none"]
    /\ rp_args = [argv |-> <<>>, envv |-> <<>>]
    /\ rp_arg_max = -1
    /\ rp_log = <<>>

\* The error codes safe_report_exec_error is given: the four it has a case
\* for, and two for its default case.
ExecErrnos == {"E2BIG", "ENOEXEC", "ENOENT", "ENOMEM", "EACCES", "ELOOP"}

\* The interpreters that can be executed, and those a command file may name.
Executables == {"/bin/sh"}
Interpreters == {"/bin/sh", "/bin/nonexistent"}

\* get_interpreter(actual_cmd, ...): the interpreter named on the file's
\* "#!" line, or NULL when the file cannot be read or has no such line.
get_interpreter(cmd) ==
    IF cmd.exists /\ cmd.interp # "none" THEN cmd.interp ELSE "NULL"

\* access(interpreter, X_OK).
AccessXOk(path) == IF path \in Executables THEN 0 ELSE -1

\* if (interpreter && 0 != access(interpreter, X_OK))
BlamesInterpreter_WheneverNamed(interpreter) == interpreter # "NULL"
BlamesInterpreter(interpreter) ==
    interpreter # "NULL" /\ 0 # AccessXOk(interpreter)

\* for (p = argv; *p; p++) sz += strlen(*p) + 1; and the same for envv.
RECURSIVE StringsSize(_)
StringsSize(lens) ==
    IF lens = <<>> THEN 0 ELSE Head(lens) + 1 + StringsSize(Tail(lens))

\* The error whose text the ENOEXEC and default cases print:
\* safe_strerror(errno), the process-wide errno and not the argument err.
StrerrorArg(err, errno) == errno

\* One debug_safe(0, ...) line: which message, and what it interpolates.
Diag(msg, text, n, m) == [msg |-> msg, text |-> text, n |-> n, m |-> m]

\* The switch (err) of safe_report_exec_error.
Diagnose(err, errno, cmd, args, arg_max) ==
    CASE err = "E2BIG" ->
             LET sz == StringsSize(args.argv) + StringsSize(args.envv)
             IN <<IF arg_max > 0 THEN Diag("exceeds_limit_of", "", sz, arg_max)
                                 ELSE Diag("exceeds_limit", "", sz, 0),
                  Diag("try_fewer_arguments", "", 0, 0)>>
      [] err = "ENOEXEC" ->
             <<Diag("exec_strerror", StrerrorArg(err, errno), 0, 0),
               Diag("marked_executable_but_not_run", "actual_cmd", 0, 0)>>
      [] err = "ENOENT" ->
             LET interpreter == get_interpreter(cmd)
             IN IF BlamesInterpreter(interpreter)
                  THEN <<Diag("interpreter_not_executable", interpreter, 0, 0)>>
                  ELSE <<Diag("does_not_exist_or_not_executed", "actual_cmd", 0, 0)>>
      [] err = "ENOMEM" -> <<Diag("out_of_memory", "", 0, 0)>>
      [] OTHER -> <<Diag("exec_strerror", StrerrorArg(err, errno), 0, 0)>>

\* safe_report_exec_error(err, actual_cmd, argv, envv): the heading line and
\* the lines of the case.
SafeReportExecError ==
    /\ rp_pc = "call"
    /\ rp_log' = <<Diag("failed_to_execute", "actual_cmd", 0, 0)>>
                     \o Diagnose(rp_err, rp_errno, rp_cmd, rp_args, rp_arg_max)
    /\ rp_pc' = "done"
    /\ UNCHANGED <<fork_vars, group_vars, io_vars, spawn_vars, setup_vars, bio_vars,
                   rp_err, rp_errno, rp_cmd, rp_args, rp_arg_max>>

ReportNext == SafeReportExecError

(***************************************************************************)
(* The specifications, one per component                                   *)
(***************************************************************************)

\* No call yet: g_fork_count is 0.
InitFork ==
    /\ ForkIdle /\ GroupIdle /\ IoIdle /\ SpawnIdle
    /\ SetupIdle /\ BioIdle /\ ReportIdle

SpecFork == InitFork /\ [][ForkNext]_vars

\* The planner's job: any flags, pgid unassigned, no process forked; the
\* terminal belongs to the shell's group or (-1) there is none to ask.
InitGroup ==
    /\ ForkIdle /\ IoIdle /\ SpawnIdle
    /\ SetupIdle /\ BioIdle /\ ReportIdle
    /\ jb_flags \in [control : BOOLEAN, terminal : BOOLEAN, foreground : BOOLEAN]
    /\ j_pgid = Unassigned
    /\ gp_n = 0
    /\ gp_pid = [i \in Procs |-> 0]
    /\ cj_pgid = [i \in Procs |-> Unassigned]
    /\ ch_entry = [i \in Procs |-> Unassigned]
    /\ ch_pc = [i \in Procs |-> "unborn"]
    /\ ch_failure = [i \in Procs |-> 0]
    /\ ch_errno = [i \in Procs |-> "0"]
    /\ ch_tries = [i \in Procs |-> 0]
    /\ ch_ret = [i \in Procs |-> TRUE]
    /\ ch_rechecked = [i \in Procs |-> FALSE]
    /\ k_pgrp = [i \in Procs |-> ShellPgrp]
    /\ tty_pgrp \in {ShellPgrp, -1}
    /\ par_pc = [i \in Procs |-> "wait"]
    /\ par_log = [i \in Procs |-> NoLog]
    /\ tty_gives = 0
    /\ pgid_writes = {}

SpecGroup == InitGroup /\ [][GroupNext]_vars

\* A forked child runs: each step of its child_set_group is taken in the end.
ChildSteps(i) ==
    \/ ChildEnter(i)
    \/ ChildSetpgidOk(i)
    \/ \E e \in SetpgidErrnos : ChildSetpgidFails(i, e)
    \/ ChildCheck(i)

\* The job of InitGroup when it does not own the terminal: set_child_group
\* then has no handoff to make.
InitGroupNoTerminal ==
    /\ InitGroup
    /\ ~jb_flags.terminal /\ ~jb_flags.foreground
    /\ tty_pgrp = ShellPgrp

FairSpecGroup ==
    /\ InitGroupNoTerminal
    /\ [][GroupNext]_vars
    /\ \A i \in Procs : WF_vars(ChildSteps(i))

\* handle_child_io is entered with any chain and any of the initial tables.
InitIO ==
    /\ ForkIdle /\ GroupIdle /\ SpawnIdle
    /\ SetupIdle /\ BioIdle /\ ReportIdle
    /\ io_chain \in Chains
    /\ io_fds \in InitTables
    /\ io_fds0 = io_fds
    /\ io_prev = io_fds
    /\ io_idx = 0
    /\ io_pc = "run"
    /\ io_ret = 0

SpecIO == InitIO /\ [][IoNext]_vars

\* Chains one entry longer than MaxChain, made of one entry of each kind and
\* an OpenFile that cannot be opened.
LongChains ==
    [1..(MaxChain + 1) ->
        {IoClose(0), IoFile(MaxFd, "out"), IoFile(0, "missing"),
         IoFd(0, MaxFd), IoPipe(0, <<MaxFd - 1, MaxFd>>, TRUE)}]

\* The same calls and the longer chains, with dup2 free to fail on an open
\* source as well.
InitIOFault ==
    /\ ForkIdle /\ GroupIdle /\ SpawnIdle
    /\ SetupIdle /\ BioIdle /\ ReportIdle
    /\ io_chain \in Chains \cup LongChains
    /\ io_fds \in InitTables
    /\ io_fds0 = io_fds
    /\ io_prev = io_fds
    /\ io_idx = 0
    /\ io_pc = "run"
    /\ io_ret = 0

SpecIOFault == InitIOFault /\ [][IoFaultNext]_vars

\* The builder is called for a job with or without job control whose pgid is
\* unassigned or a child's pid, with a chain of its own.
InitSpawn ==
    /\ ForkIdle
    /\ SetupIdle /\ BioIdle /\ ReportIdle
    /\ io_chain \in SpawnChains
    /\ io_fds = [fd \in Slots |-> Closed]
    /\ io_fds0 = io_fds
    /\ io_prev = io_fds
    /\ io_idx = 0
    /\ io_pc = "done"
    /\ io_ret = 0
    /\ jb_flags \in [control : BOOLEAN, terminal : {FALSE}, foreground : {FALSE}]
    /\ j_pgid \in {Unassigned, ShellPgrp + 1}
    /\ gp_n = 0
    /\ gp_pid = [i \in Procs |-> 0]
    /\ cj_pgid = [i \in Procs |-> Unassigned]
    /\ ch_entry = [i \in Procs |-> Unassigned]
    /\ ch_pc = [i \in Procs |-> "unborn"]
    /\ ch_failure = [i \in Procs |-> 0]
    /\ ch_errno = [i \in Procs |-> "0"]
    /\ ch_tries = [i \in Procs |-> 0]
    /\ ch_ret = [i \in Procs |-> TRUE]
    /\ ch_rechecked = [i \in Procs |-> FALSE]
    /\ k_pgrp = [i \in Procs |-> ShellPgrp]
    /\ tty_pgrp = ShellPgrp
    /\ par_pc = [i \in Procs |-> "wait"]
    /\ par_log = [i \in Procs |-> NoLog]
    /\ tty_gives = 0
    /\ pgid_writes = {}
    /\ sp_pc = "attr_init"
    /\ sp_attr = NoAttr
    /\ sp_actions = NoActions
    /\ sp_err = FALSE
    /\ sp_idx = 0
    /\ sp_ret = FALSE

SpecSpawn == InitSpawn /\ [][SpawnNext]_vars

\* do_builtin_io is called with or without each buffer, whatever errno holds.
InitBio ==
    /\ ForkIdle /\ GroupIdle /\ IoIdle /\ SpawnIdle
    /\ SetupIdle /\ ReportIdle
    /\ bio_pc = "out"
    /\ bio_out \in BOOLEAN
    /\ bio_err \in BOOLEAN
    /\ bio_errno \in {"0"} \cup WriteErrnos
    /\ bio_saved = "0"
    /\ bio_success = TRUE
    /\ bio_ret = TRUE
    /\ bio_logs = <<>>
    /\ bio_fails = <<>>

SpecBio == InitBio /\ [][BioNext]_vars

\* How long an argv or envv string, and how many of them, a call is given.
MaxStrLen == 2
MaxStrings == 2

\* safe_report_exec_error is called after a failed exec or spawn: with the
\* error code, whatever errno holds by then, a command file that is missing,
\* has no "#!" line or names an interpreter, and some argv and envv.
InitReport ==
    /\ ForkIdle /\ GroupIdle /\ IoIdle /\ SpawnIdle
    /\ SetupIdle /\ BioIdle
    /\ rp_pc = "call"
    /\ rp_err \in ExecErrnos
    /\ rp_errno \in {"0"} \cup ExecErrnos
    /\ rp_cmd \in {[exists |-> FALSE, interp |-> "none"], [exists |-> TRUE, interp |-> "none"]}
                     \cup {[exists |-> TRUE, interp |-> i] : i \in Interpreters}
    /\ rp_args \in [argv : UNION {[1..n -> 1..MaxStrLen] : n \in 1..MaxStrings},
                     envv : {<<>>, <<MaxStrLen>>}]
    /\ rp_arg_max \in {-1, 8}
    /\ rp_log = <<>>

SpecReport == InitReport /\ [][ReportNext]_vars

\* setup_child_process is called in a freshly forked child, with or without a
\* process context, on any chain; the child's fds are all open.
InitSetup ==
    /\ ForkIdle /\ GroupIdle /\ SpawnIdle
    /\ BioIdle /\ ReportIdle
    /\ io_chain \in Chains
    /\ io_fds = [fd \in Slots |-> IF fd \in Fds THEN InitDesc(fd) ELSE Closed]
    /\ io_fds0 = io_fds
    /\ io_prev = io_fds
    /\ io_idx = 0
    /\ io_pc = "run"
    /\ io_ret = 0
    /\ su_pc = "io"
    /\ su_p_null \in BOOLEAN
    /\ su_ret = 1
    /\ su_exit = -1
    /\ su_resets = 0
    /\ su_reset_at = -1

SpecSetup == InitSetup /\ [][SetupNext]_vars

(***************************************************************************)
(* The claims                                                              *)
(***************************************************************************)

\* C1: a call that met k consecutive EAGAIN failures and then a successful
\* fork has k < FORK_LAPS, returns that fork's pid and has slept exactly k
\* times; a call that met FORK_LAPS EAGAIN failures never returns: it is on
\* the fatal path (and a call that turned fatal on an EAGAIN failure has met
\* FORK_LAPS of them, no fewer).
C1_ForkRetry ==
    /\ fk_pc = "returned" =>
          /\ fk_efails < FORK_LAPS
          /\ fk_ret = fk_child /\ fk_child >= 0
          /\ fk_sleeps = fk_efails
    /\ fk_efails >= FORK_LAPS => fk_pc \in {"fatal", "exited"}
    /\ (fk_pc \in {"fatal", "exited"} /\ fk_lasterr = "EAGAIN")
          => fk_efails = FORK_LAPS

\* C1 witness: four transient failures, four sleeps, then the fifth fork succeeds.
C1_Witness ==
    fk_pc = "returned" /\ fk_efails = FORK_LAPS - 1 /\ fk_sleeps = FORK_LAPS - 1
        /\ fk_ret = MaxPid

\* C2 as stated: every assignment to a job's pgid, by child_set_group or
\* set_child_group, with job control enabled or disabled, happens while the
\* pgid holds the unassigned sentinel and stores a real process-group id.
C2_WrittenOnlyWhileUnassigned ==
    \A w \in pgid_writes : w.old = Unassigned /\ w.new > 0

\* C2 amended: with job control enabled every assignment to a job's pgid
\* happens while it holds the sentinel and stores a child's pid, so a pgid
\* that holds a real value is never overwritten; with job control disabled
\* every call assigns getpgrp(), the shell's group, whatever the pgid held.
C2_WrittenOnceUnderJobControl ==
    /\ jb_flags.control =>
          \A w \in pgid_writes :
              w.old = Unassigned /\ w.new = gp_pid[w.proc] /\ w.new > 0
    /\ ~jb_flags.control =>
          /\ \A w \in pgid_writes : w.new = ShellPgrp
          /\ \A i \in Procs :
                /\ ch_pc[i] = "done" =>
                      \E w \in pgid_writes : w.by = "child" /\ w.proc = i
                /\ par_pc[i] = "done" =>
                      \E w \in pgid_writes : w.by = "parent" /\ w.proc = i

\* C2 witness: under job control the parent has called set_child_group for
\* two processes, the second child has run child_set_group on its copy, and
\* the parent's pgid was written once.
C2_Witness ==
    /\ jb_flags.control
    /\ par_pc[1] = "done" /\ par_pc[2] = "done" /\ ch_pc[2] = "done"
    /\ Cardinality({w \in pgid_writes : w.by = "parent"}) = 1
    /\ j_pgid = gp_pid[1]

\* C3: when child_set_group has returned for a job with job control, the
\* child's j->pgid is its own pid if it was unassigned on entry, whatever
\* setpgid did and whatever is returned; a pgid assigned on entry is unchanged.
C3_ChildAdoptsOwnPid ==
    \A i \in Procs :
        ch_pc[i] = "done" =>
            /\ (jb_flags.control /\ ch_entry[i] = Unassigned) => cj_pgid[i] = gp_pid[i]
            /\ ch_entry[i] # Unassigned => cj_pgid[i] = ch_entry[i]

\* C3 witness: a first child whose setpgid failed and that returned false
\* still left its pid in j->pgid, and a second child kept the assigned pgid.
C3_Witness ==
    /\ jb_flags.control
    /\ ch_pc[1] = "done" /\ ch_entry[1] = Unassigned /\ ~ch_ret[1]
    /\ cj_pgid[1] = gp_pid[1]
    /\ ch_pc[2] = "done" /\ ch_entry[2] = gp_pid[1] /\ cj_pgid[2] = gp_pid[1]

\* C4: a set_child_group call that finds the terminal's foreground group equal
\* to the job's pgid (after its pgid assignment) does not call
\* terminal_give_to_job and returns true; over the calls for one job the
\* terminal is transferred at most once.
C4_NoRegrant ==
    /\ \A i \in Procs :
          (par_pc[i] = "done" /\ par_log[i].tty = par_log[i].pgid) =>
              (~par_log[i].gave /\ par_log[i].ret)
    /\ tty_gives <= 1

\* C4 witness: the first call gave the terminal to the job, the second call
\* for the same foreground job found it there and made no transfer call.
C4_Witness ==
    /\ jb_flags.control /\ jb_flags.terminal /\ jb_flags.foreground
    /\ par_pc[1] = "done" /\ par_log[1].gave /\ par_log[1].ret
    /\ par_pc[2] = "done" /\ par_log[2].tty = par_log[2].pgid /\ ~par_log[2].gave
    /\ tty_gives = 1

\* The IoChain entries handle_child_io has applied with success so far.
AppliedCount == IF io_ret = 0 THEN io_idx ELSE io_idx - 1

\* C5 as stated: when handle_child_io has applied a chain and the builder's
\* file actions for the same chain run through in the spawned process, both
\* from the same fd table, the two fd tables are equal.
C5_SpawnPlanMatchesChildIo ==
    (io_pc = "done" /\ io_ret = 0) =>
        LET fa == FileActions(io_chain)
            sp == SpawnExec(fa.actions, io_fds0)
        IN (fa.ok /\ sp.ok) => sp.t = io_fds

\* C6 as stated: once handle_child_io has applied a chain, both fds of the
\* pipe pair of every PipeEnd entry it applied are closed.
C6_PipePairClosedAtEnd ==
    io_pc = "done" =>
        \A k \in 1..AppliedCount :
            io_chain[k].io_mode = "IO_PIPE" =>
                \A x \in {io_chain[k].pipe_fd[1], io_chain[k].pipe_fd[2]} :
                    x >= 0 => ~IsOpen(io_fds, x)

\* C6 amended: at every point of handle_child_io, each fd of the pipe pair of
\* a PipeEnd entry it has applied is closed, whichever half was selected,
\* unless an entry attempted after it targets that fd; so both are closed
\* right after the PipeEnd entry itself.
C6_PipePairClosedUnlessRetargeted ==
    \A k \in 1..AppliedCount :
        io_chain[k].io_mode = "IO_PIPE" =>
            \A x \in {io_chain[k].pipe_fd[1], io_chain[k].pipe_fd[2]} :
                x >= 0 =>
                    \/ ~IsOpen(io_fds, x)
                    \/ \E j \in (k + 1)..io_idx : io_chain[j].fd = x

\* C6 witness: an input-side PipeEnd whose pair was open has been applied
\* after another entry, and both halves are closed when the function returns.
C6_Witness ==
    /\ io_pc = "done" /\ io_ret = 0 /\ Len(io_chain) = 2
    /\ io_chain[2].io_mode = "IO_PIPE" /\ io_chain[2].is_input
    /\ io_chain[2].pipe_fd = <<MaxFd - 1, MaxFd>>
    /\ IsOpen(io_prev, MaxFd - 1) /\ IsOpen(io_prev, MaxFd)
    /\ ~IsOpen(io_fds, MaxFd - 1) /\ ~IsOpen(io_fds, MaxFd)

\* C7 as stated: right after a PipeEnd entry that handle_child_io applied with
\* success, the target fd is open and refers to what the selected half of the
\* pair referred to before the entry, for every target fd.
C7_PipeTargetRefersToSelectedHalf ==
    (io_idx > 0 /\ io_ret = 0) =>
        LET io == io_chain[io_idx]
        IN io.io_mode = "IO_PIPE" =>
              /\ IsOpen(io_fds, io.fd)
              /\ io_fds[io.fd] = io_prev[SelectedHalf(io)]

\* C8: an IO_FD entry whose target equals its source leaves the fd table as
\* it was (fd is neither closed nor duplicated), does not fail the chain,
\* and gets no file action from the spawn builder.
C8_SelfDupIsNoOp ==
    io_idx > 0 =>
        LET io == io_chain[io_idx]
        IN (io.io_mode = "IO_FD" /\ io.fd = io.old_fd) =>
              /\ io_fds = io_prev
              /\ io_ret = 0
              /\ EntryActions(io) = <<>>

\* C8 witness: DuplicateFd(fd, fd) was met after another entry, once on an
\* open fd, which stays open on the same description.
C8_Witness ==
    /\ io_idx = 2 /\ io_chain[2] = IoFd(1, 1)
    /\ io_chain[1].io_mode = "IO_FILE" /\ io_ret = 0
    /\ IsOpen(io_fds, 1) /\ io_fds[1] = io_prev[1]

Perms(n) == {p \in [1..n -> 1..n] : \A a, b \in 1..n : p[a] = p[b] => a = b}

Permuted(chain, p) == [k \in 1..Len(chain) |-> chain[p[k]]]

\* C9's precondition as stated, in its strongest reading: no two entries of
\* the chain target the same fd at all.
DistinctTargets(chain) ==
    \A a, b \in 1..Len(chain) : chain[a].fd = chain[b].fd => a = b

\* The fds an entry overwrites or closes, and the fds it reads.
WrittenFds(io) ==
    IF SkipsEntry(io) THEN {}
    ELSE IF io.io_mode = "IO_PIPE"
           THEN {io.fd} \cup {x \in {io.pipe_fd[1], io.pipe_fd[2]} : x >= 0}
           ELSE {io.fd}
ReadFds(io) ==
    IF SkipsEntry(io) THEN {}
    ELSE CASE io.io_mode = "IO_FD" -> {io.old_fd}
           [] io.io_mode = "IO_PIPE" -> {SelectedHalf(io)}
           [] OTHER -> {}

NonInterfering(chain) ==
    \A a, b \in 1..Len(chain) :
        a # b => WrittenFds(chain[a]) \cap (WrittenFds(chain[b]) \cup ReadFds(chain[b])) = {}

\* C9 as stated, for the chains handle_child_io applies with success: for a
\* chain no two entries of which target the same fd, every permutation
\* applied to the same initial table gives the same final table and the
\* same result.
C9_OrderIndependentOnDistinctTargets ==
    (io_pc = "done" /\ io_ret = 0 /\ DistinctTargets(io_chain)) =>
        \A p \in Perms(Len(io_chain)) :
            RunChain(Permuted(io_chain, p), io_fds0) = [ret |-> io_ret, t |-> io_fds]

\* C9 amended: for a chain in which no entry overwrites or closes (as its
\* target or as a fd of its pipe pair) a fd that another entry targets, closes
\* or reads from, every permutation applied to the same initial table gives
\* the same success/failure result and, on success, the same final table.
C9_OrderIndependentWhenNonInterfering ==
    (io_pc = "done" /\ NonInterfering(io_chain)) =>
        \A p \in Perms(Len(io_chain)) :
            LET r == RunChain(Permuted(io_chain, p), io_fds0)
            IN r.ret = io_ret /\ (io_ret = 0 => r.t = io_fds)

\* C9 witness: a PipeEnd and an OpenFile on another fd, both effective, have
\* been applied with success; the chain has a second order.
C9_Witness ==
    /\ io_pc = "done" /\ io_ret = 0 /\ Len(io_chain) = 2
    /\ NonInterfering(io_chain)
    /\ io_chain[1].io_mode = "IO_PIPE" /\ io_chain[2].io_mode = "IO_FILE"
    /\ io_fds[io_chain[1].fd] # io_fds0[io_chain[1].fd]
    /\ io_fds[io_chain[2].fd] = FileDesc

\* The builder's return leaves an object as it found it, or as a failure
\* path should: destroyed exactly once if its init had succeeded, untouched
\* if not.
Unwound(o) == IF o.inits = 1 THEN o.state = "destroyed" /\ o.destroys = 1
                             ELSE o.state = "uninit" /\ o.destroys = 0

\* C10: when fork_actions_make_spawn_properties has returned false, each of
\* attr and actions whose init succeeded has been destroyed exactly once and
\* an object never initialized has not been destroyed; when it has returned
\* true, both are initialized and neither has been destroyed.
C10_NoLeakOnFailure ==
    sp_pc = "done" =>
        IF sp_ret
          THEN /\ sp_attr.state = "init" /\ sp_attr.destroys = 0
               /\ sp_actions.state = "init" /\ sp_actions.destroys = 0
          ELSE Unwound(sp_attr) /\ Unwound(sp_actions)

\* C10 witness: the second append of a PipeEnd entry failed after the first
\* was made; the builder returned false with both objects destroyed once.
C10_Witness ==
    /\ sp_pc = "done" /\ ~sp_ret
    /\ Len(sp_actions.list) = 1 /\ sp_actions.list[1].op = "dup2"
    /\ sp_attr.inits = 1 /\ sp_attr.destroys = 1
    /\ sp_actions.inits = 1 /\ sp_actions.destroys = 1

\* C11: a plan the builder returned successfully has the SETSIGDEF and
\* SETSIGMASK flags, an empty signal mask and the default-disposition set
\* filled in; it has the SETPGROUP flag and a requested group exactly when the
\* job has job control, and that group is the job's pgid, or 0 when the pgid
\* is the unassigned sentinel; no assignment to the job's pgid was made.
C11_PlanAttributes ==
    /\ pgid_writes = {}
    /\ (sp_pc = "done" /\ sp_ret) =>
          /\ {"POSIX_SPAWN_SETSIGDEF", "POSIX_SPAWN_SETSIGMASK"} \subseteq sp_attr.flags
          /\ sp_attr.sigmask = "empty"
          /\ sp_attr.sigdefault = "handled"
          /\ ("POSIX_SPAWN_SETPGROUP" \in sp_attr.flags) <=> jb_flags.control
          /\ IF jb_flags.control
               THEN /\ sp_attr.pgroup = (IF j_pgid = Unassigned THEN 0 ELSE j_pgid)
                    /\ sp_attr.pgroup # Unassigned
               ELSE sp_attr.pgroup = NoAttr.pgroup

\* C11 witness: a plan built for a job-control job whose pgid is still
\* unassigned asks for a new group (0) and leaves the pgid unassigned.
C11_Witness ==
    /\ sp_pc = "done" /\ sp_ret
    /\ jb_flags.control /\ j_pgid = Unassigned
    /\ sp_attr.pgroup = 0
    /\ "POSIX_SPAWN_SETPGROUP" \in sp_attr.flags

\* C12: once setup_child_process is over: if handle_child_io failed and the
\* process context is non-null, the child has exited through
\* exit_without_destructors(1), nothing was returned and signal_reset_handlers
\* was not called; if it failed with a null context, -1 was returned, with no
\* exit and no signal reset; if it succeeded, 0 was returned and
\* signal_reset_handlers was called exactly once, when every entry of the
\* chain had been applied. No signal reset happens while the chain is applied.
C12_SetupOutcome ==
    /\ su_pc = "io" => su_resets = 0 /\ su_exit = -1 /\ su_ret = 1
    /\ su_pc \in {"returned", "exited"} =>
          /\ io_pc = "done"
          /\ (io_ret # 0 /\ ~su_p_null) =>
                /\ su_pc = "exited" /\ su_exit = 1
                /\ su_ret = 1 /\ su_resets = 0
          /\ (io_ret # 0 /\ su_p_null) =>
                /\ su_pc = "returned" /\ su_ret = -1
                /\ su_exit = -1 /\ su_resets = 0
          /\ io_ret = 0 =>
                /\ su_pc = "returned" /\ su_ret = 0 /\ su_exit = -1
                /\ su_resets = 1 /\ su_reset_at = Len(io_chain)

\* C12 witness: with a process context, the second entry of a chain failed
\* and the child exited with status 1.
C12_Witness ==
    /\ su_pc = "exited" /\ su_exit = 1 /\ ~su_p_null
    /\ io_ret = -1 /\ io_idx = 2

\* C13 as stated: when child_set_group has finished under job control after
\* a setpgid call that succeeded, the kernel's view of the child's group has
\* been re-checked (getpgid was asked).
C13_RecheckedAfterSuccess ==
    \A i \in Procs :
        (ch_pc[i] = "done" /\ jb_flags.control /\ ch_failure[i] = 0) =>
            ch_rechecked[i]

\* C13 amended: under job control getpgid is asked exactly when the last
\* setpgid call failed (with an error the loop does not retry), never after
\* a call that succeeded; child_set_group returns false exactly when that
\* call failed and the kernel's group of the child differs from the job's
\* pgid; it returns true only when the kernel's group equals the job's pgid,
\* and reports failure whenever it does not.
C13_RecheckOnlyAfterFailure ==
    \A i \in Procs :
        (ch_pc[i] = "done" /\ jb_flags.control) =>
            /\ ch_tries[i] >= 1
            /\ ch_rechecked[i] <=> (ch_failure[i] # 0)
            /\ ch_failure[i] # 0 => ch_errno[i] \notin {"EPERM", "EINTR"}
            /\ ch_ret[i] <=> ~(ch_failure[i] # 0 /\ k_pgrp[i] # cj_pgid[i])
            /\ ch_ret[i] <=> (k_pgrp[i] = cj_pgid[i])

\* C13 witness: a child whose setpgid failed with ESRCH after a retry asked
\* getpgid, found itself outside the job's group and returned false.
C13_Witness ==
    \E i \in Procs :
        /\ ch_pc[i] = "done" /\ jb_flags.control
        /\ ch_failure[i] = -1 /\ ch_errno[i] = "ESRCH" /\ ch_tries[i] = 2
        /\ ch_rechecked[i] /\ ~ch_ret[i]
        /\ k_pgrp[i] # cj_pgid[i]

C15_ErrnoOfFirstFailure ==
    bio_pc = "done" =>
        /\ bio_ret <=> (bio_fails = <<>>)
        /\ bio_fails # <<>> => bio_errno = bio_fails[1][2]

\* C16: once a fork() has failed with an error other than EAGAIN the call is
\* on the fatal path (no further fork(), no nanosleep(): every sleep made
\* followed an EAGAIN failure that came before); on the fatal path errno is
\* still what the last failed fork() set, every EAGAIN failure but the last
\* lap's was followed by one sleep, and the error safe_perror reports is the
\* one the last failed fork() set.
C16_FatalReportsLastForkError ==
    /\ fk_lasterr \notin {"none", "EAGAIN"} =>
          /\ fk_pc \in {"fatal", "exited"}
          /\ fk_sleeps = fk_efails
    /\ fk_pc \in {"fatal", "exited"} =>
          /\ fk_lasterr # "none"
          /\ fk_errno = fk_lasterr
          /\ fk_lasterr = "EAGAIN" => fk_sleeps = fk_efails - 1
    /\ fk_pc = "exited" => fk_reported = fk_lasterr
    /\ fk_pc # "exited" => fk_reported = "none"

\* C16 witness: every lap failed with EAGAIN, four sleeps were made, none
\* after the last failure, and EAGAIN is what the report named.
C16_Witness ==
    /\ fk_pc = "exited"
    /\ fk_lasterr = "EAGAIN" /\ fk_reported = "EAGAIN"
    /\ fk_efails = FORK_LAPS /\ fk_sleeps = FORK_LAPS - 1

\* C17: for err = ENOENT the report is the heading and exactly one line: the
\* "specified the interpreter ... not an executable command" line, naming the
\* interpreter, exactly when the command file has an interpreter line whose
\* interpreter is not executable, and the "does not exist or could not be
\* executed" line in every other case.
C17_EnoentBlamesInterpreter ==
    (rp_pc = "done" /\ rp_err = "ENOENT") =>
        LET named == rp_cmd.exists /\ rp_cmd.interp # "none"
            bad == named /\ rp_cmd.interp \notin Executables
        IN /\ Len(rp_log) = 2
           /\ rp_log[2].msg \in {"interpreter_not_executable",
                                 "does_not_exist_or_not_executed"}
           /\ (rp_log[2].msg = "interpreter_not_executable") <=> bad
           /\ bad => rp_log[2].text = rp_cmd.interp

\* C17 witness: the command file names /bin/nonexistent and the report
\* blames that interpreter.
C17_Witness ==
    /\ rp_pc = "done" /\ rp_err = "ENOENT"
    /\ rp_cmd = [exists |-> TRUE, interp |-> "/bin/nonexistent"]
    /\ rp_log[2] = Diag("interpreter_not_executable", "/bin/nonexistent", 0, 0)

LastTargeting(fd) ==
    CHOOSE k \in 1..Len(io_chain) :
        /\ io_chain[k].fd = fd
        /\ \A j \in (k + 1)..Len(io_chain) : io_chain[j].fd # fd
TableAfter(k) == RunChain(SubSeq(io_chain, 1, k), io_fds0).t

\* A PipeEnd entry after entry k has fd in its pipe pair.
InLaterPipePair(fd, k) ==
    \E j \in (k + 1)..Len(io_chain) :
        /\ io_chain[j].io_mode = "IO_PIPE"
        /\ fd \in {io_chain[j].pipe_fd[1], io_chain[j].pipe_fd[2]}

\* C19 as stated: when handle_child_io has applied the chain successfully,
\* every fd that is the target of some entry is in the state the last entry
\* targeting it left it in.
C19_LastTargetingEntryDecides ==
    (io_pc = "done" /\ io_ret = 0) =>
        \A fd \in Fds :
            (\E k \in 1..Len(io_chain) : io_chain[k].fd = fd) =>
                io_fds[fd] = TableAfter(LastTargeting(fd))[fd]

\* C19 amended: when handle_child_io has applied the chain successfully,
\* every fd that is the target of some entry is in the state the last entry
\* targeting it left it in, unless a PipeEnd entry after that one has the fd
\* in its pipe pair: then the fd is closed.
C19_LastTargetingEntryDecidesUnlessPipeHalf ==
    (io_pc = "done" /\ io_ret = 0) =>
        \A fd \in Fds :
            (\E k \in 1..Len(io_chain) : io_chain[k].fd = fd) =>
                LET k == LastTargeting(fd)
                IN IF InLaterPipePair(fd, k)
                     THEN io_fds[fd] = Closed
                     ELSE io_fds[fd] = TableAfter(k)[fd]

\* C19 witness: two entries target the same fd, the first a Close and the
\* second an OpenFile, and the fd ends open on the file; and an fd another
\* entry targets is as that entry left it.
C19_Witness ==
    /\ io_pc = "done" /\ io_ret = 0 /\ Len(io_chain) = 2
    /\ io_chain[1] = IoClose(0)
    /\ io_chain[2] = IoFile(0, "out")
    /\ io_fds0[0] = InitDesc(0)
    /\ io_fds[0] = FileDesc

\* What the loop of child_set_group has done when child i is about to call
\* setpgid again, and when it has left the loop.
RetryLoopRule(i) ==
    /\ (ch_pc[i] = "setpgid" /\ ch_tries[i] >= 1) =>
          ch_failure[i] = -1 /\ ch_errno[i] \in {"EPERM", "EINTR"}
    /\ (ch_pc[i] \in {"check", "done"} /\ jb_flags.control) =>
          /\ ch_tries[i] >= 1
          /\ \/ ch_failure[i] = 0
             \/ ch_failure[i] = -1 /\ ch_errno[i] \notin {"EPERM", "EINTR"}
    /\ ~jb_flags.control => ch_tries[i] = 0

\* C20: setpgid is issued again exactly when the call before it failed with
\* EPERM or EINTR, however many calls were made before, and the loop is left
\* on success and on a failure with any other error; with the kernel
\* answering EPERM or EINTR to finitely many calls, a child that has entered
\* child_set_group returns from it in the end.
C20_RetryLoop ==
    /\ [](\A i \in Procs : RetryLoopRule(i))
    /\ \A i \in Procs : (ch_pc[i] = "enter") ~> (ch_pc[i] = "done")

\* C20 witness: a child met EPERM or EINTR on MaxRetries calls in a row, one
\* of them EINTR, called setpgid once more, succeeded and returned true.
C20_Witness ==
    \E i \in Procs :
        /\ ch_pc[i] = "done" /\ jb_flags.control
        /\ ch_tries[i] = MaxRetries + 1
        /\ ch_failure[i] = 0 /\ ch_errno[i] = "EINTR"
        /\ ch_ret[i]

(***************************************************************************)
(* C21: the first process leads the job's group                            *)
(***************************************************************************)

\* Child i has made its pgid assignment (lines 77-80) and is at or past its
\* first setpgid(p->pid, j->pgid): cj_pgid[i] is the group it asks for.
Requested(i) == ch_pc[i] \in {"setpgid", "check", "done"}

\* C21: for a job with job control whose processes are forked one after
\* another, however each child's child_set_group interleaves with the
\* parent's set_child_group for it: once the parent has run set_child_group
\* for the first child its j->pgid is the first child's pid and stays so; the
\* first child's copy of the job holds the same pgid; every child, the later
\* ones included, asks setpgid for exactly that group and is in it once its
\* setpgid succeeded; no two copies of the job that hold an assigned pgid
\* hold different ones.
C21_FirstProcessLeads ==
    jb_flags.control =>
        /\ par_pc[1] = "done" => j_pgid = gp_pid[1]
        /\ \A i \in Procs :
            /\ Requested(i) => cj_pgid[i] = gp_pid[1]
            /\ (ch_pc[i] \in {"check", "done"} /\ ch_failure[i] = 0)
                   => k_pgrp[i] = gp_pid[1]
            /\ (Requested(i) /\ j_pgid # Unassigned) => cj_pgid[i] = j_pgid
            /\ \A k \in Procs :
                   (Requested(i) /\ Requested(k)) => cj_pgid[i] = cj_pgid[k]

\* Two processes of a job-control job, both through child_set_group with a
\* successful setpgid and both seen by set_child_group: the second one, with
\* another pid, sits in the group the first one leads.
C21_Witness ==
    /\ jb_flags.control
    /\ gp_n >= 2
    /\ gp_pid[2] # gp_pid[1]
    /\ par_pc[1] = "done" /\ par_pc[2] = "done"
    /\ ch_pc[1] = "done" /\ ch_pc[2] = "done"
    /\ ch_failure[1] = 0 /\ ch_failure[2] = 0
    /\ j_pgid = gp_pid[1]
    /\ k_pgrp[1] = gp_pid[1] /\ k_pgrp[2] = gp_pid[1]

(***************************************************************************)
(* C22: the error the default case of safe_report_exec_error names         *)
(***************************************************************************)

\* The error codes safe_report_exec_error has a case of its own for.
OwnCaseErrnos == {"E2BIG", "ENOEXEC", "ENOENT", "ENOMEM"}

\* C22 as stated: for an err that is none of E2BIG, ENOEXEC, ENOENT and
\* ENOMEM the report is the heading and one "exec: <text>" line whose text
\* is that of err, the code passed in, whatever errno holds at the call.
\* The code passes errno to safe_strerror (line 521), so this fails when the
\* two differ.
C22_DefaultNamesArgumentError ==
    (rp_pc = "done" /\ rp_err \notin OwnCaseErrnos) =>
        /\ Len(rp_log) = 2
        /\ rp_log[2].msg = "exec_strerror"
        /\ rp_log[2].text = rp_err

====
